---- MODULE Spec2Model ----
(***************************************************************************)
(* Model of csjx_boucwen_model.py: the synthetic-jet cycle simulator       *)
(* (simulate_cycle), the closed-form sweep (sweep_S_tauR), the calibration *)
(* wrapper (fit_sigma_kH) and the shared envelope / gain functions.        *)
(*                                                                         *)
(* Numbers.  A Python / numpy double is modelled by an exact decimal       *)
(* rational  n/d * 10^e  (record [k |-> "fin", n, d, e], canonical: n and  *)
(* d coprime, n no multiple of 10, d coprime to 10), by one of the IEEE    *)
(* specials "nan", "inf", "-inf", or by "unrep": a finite value whose      *)
(* exact mantissa needs more than Lim, which the model does not follow     *)
(* any further (an operation on it yields "unrep", except 0 * unrep = 0).  *)
(* Rounding error of                                                       *)
(* double arithmetic is not modelled: arithmetic on represented values is  *)
(* exact.  exp is kept symbolic: the value c * exp(a) is the record        *)
(* [coef |-> c, arg |-> a].  sin and cos are exact at quarter turns.       *)
(***************************************************************************)
EXTENDS Integers, Sequences, FiniteSets, TLC

\* largest mantissa numerator / denominator the model represents exactly
Lim == 100000000
\* largest product of two integers the model forms (TLC integers are 32-bit)
MaxProd == 1000000000

(***************************************************************************)
(* Double arithmetic                                                       *)
(***************************************************************************)
Fin(n, d, e) == [k |-> "fin", n |-> n, d |-> d, e |-> e]
Special(kind) == [k |-> kind, n |-> 0, d |-> 1, e |-> 0]
NaN == Special("nan")
PInf == Special("inf")
NInf == Special("-inf")
Unrep == Special("unrep")
Zero == Fin(0, 1, 0)
One == Fin(1, 1, 0)

IAbs(a) == IF a < 0 THEN -a ELSE a

\* the product a * b is within MaxProd
Fits(a, b) == a = 0 \/ b = 0 \/ IAbs(a) <= MaxProd \div IAbs(b)

RECURSIVE GCD(_, _)
GCD(a, b) == IF b = 0 THEN a ELSE GCD(b, a % b)

RECURSIVE Pow10(_)
Pow10(g) == IF g = 0 THEN 1 ELSE 10 * Pow10(g - 1)

\* canonical form of n/d * 10^e, for n # 0, d > 0, gcd(n, d) = 1
RECURSIVE Canon(_, _, _)
Canon(n, d, e) ==
    IF n % 10 = 0 THEN Canon(n \div 10, d, e + 1)
    ELSE IF d % 10 = 0 THEN Canon(n, d \div 10, e - 1)
    ELSE IF n > Lim \/ n < -Lim THEN Unrep
    ELSE IF d % 2 = 0 THEN Canon(n * 5, d \div 2, e - 1)
    ELSE IF d % 5 = 0 THEN Canon(n * 2, d \div 5, e - 1)
    ELSE IF d > Lim THEN Unrep
    ELSE Fin(n, d, e)

\* the double n/d * 10^e (d > 0)
Mk(n, d, e) ==
    IF n = 0 THEN Zero
    ELSE LET g == GCD(IAbs(n), d) IN Canon(n \div g, d \div g, e)

Whole(i) == Mk(i, 1, 0)
\* the decimal literal m * 10^e, as in 1e-9 or 2.0e-8
Dec(m, e) == Mk(m, 1, e)

IsFin(a) == a.k = "fin"
IsInf(a) == a.k \in {"inf", "-inf"}
\* sign of a finite or infinite value
Sgn(a) ==
    IF a.k = "inf" THEN 1
    ELSE IF a.k = "-inf" THEN -1
    ELSE IF a.n > 0 THEN 1 ELSE IF a.n < 0 THEN -1 ELSE 0

Neg(a) ==
    IF a.k = "fin" THEN Fin(-a.n, a.d, a.e)
    ELSE IF a.k = "inf" THEN NInf
    ELSE IF a.k = "-inf" THEN PInf
    ELSE a

NAbs(a) == IF a.k \in {"fin", "inf", "-inf"} /\ Sgn(a) < 0 THEN Neg(a) ELSE a

\* the product of two finite non-zero doubles
FinMul(a, b) ==
    LET g1 == GCD(IAbs(a.n), b.d)
        g2 == GCD(IAbs(b.n), a.d)
        n1 == a.n \div g1
        n2 == b.n \div g2
        d1 == a.d \div g2
        d2 == b.d \div g1
    IN  IF Fits(n1, n2) /\ Fits(d1, d2) THEN Mk(n1 * n2, d1 * d2, a.e + b.e)
        ELSE Unrep

Mul(a, b) ==
    IF (a = Zero /\ b.k = "unrep") \/ (b = Zero /\ a.k = "unrep") THEN Zero
    ELSE IF a.k = "unrep" \/ b.k = "unrep" THEN Unrep
    ELSE IF a.k = "nan" \/ b.k = "nan" THEN NaN
    ELSE IF IsInf(a) \/ IsInf(b)
         THEN IF Sgn(a) * Sgn(b) = 0 THEN NaN
              ELSE IF Sgn(a) * Sgn(b) > 0 THEN PInf ELSE NInf
    ELSE IF a.n = 0 \/ b.n = 0 THEN Zero
    ELSE FinMul(a, b)

\* the sum of two finite non-zero doubles
FinAdd(a, b) ==
    LET e  == IF a.e < b.e THEN a.e ELSE b.e
        ga == a.e - e
        gb == b.e - e
        g  == GCD(a.d, b.d)
        da == a.d \div g
        db == b.d \div g
    IN  IF ga > 9 \/ gb > 9 THEN Unrep
        ELSE IF ~Fits(a.n, Pow10(ga)) \/ ~Fits(b.n, Pow10(gb)) THEN Unrep
        ELSE IF ~Fits(a.n * Pow10(ga), db) \/ ~Fits(b.n * Pow10(gb), da)
                \/ ~Fits(a.d, db)
             THEN Unrep
        ELSE Mk(a.n * Pow10(ga) * db + b.n * Pow10(gb) * da, a.d * db, e)

Add(a, b) ==
    IF a.k = "unrep" \/ b.k = "unrep" THEN Unrep
    ELSE IF a.k = "nan" \/ b.k = "nan" THEN NaN
    ELSE IF IsInf(a) /\ IsInf(b) THEN (IF a = b THEN a ELSE NaN)
    ELSE IF IsInf(a) THEN a
    ELSE IF IsInf(b) THEN b
    ELSE IF a.n = 0 THEN b
    ELSE IF b.n = 0 THEN a
    ELSE FinAdd(a, b)

Sub(a, b) == Add(a, Neg(b))

\* 1 / b for a finite non-zero double b
Recip(b) == IF b.n > 0 THEN Mk(b.d, b.n, -b.e) ELSE Mk(-b.d, -b.n, -b.e)

\* numpy true division: a zero divisor gives nan or an infinity (with a
\* RuntimeWarning), never an exception
Div(a, b) ==
    IF a.k = "unrep" \/ b.k = "unrep" THEN Unrep
    ELSE IF a.k = "nan" \/ b.k = "nan" THEN NaN
    ELSE IF IsInf(b) THEN (IF IsInf(a) THEN NaN ELSE Zero)
    ELSE IF b.n = 0
         THEN IF Sgn(a) = 0 THEN NaN ELSE IF Sgn(a) > 0 THEN PInf ELSE NInf
    ELSE IF IsInf(a) THEN (IF Sgn(a) * Sgn(b) > 0 THEN PInf ELSE NInf)
    ELSE IF a.n = 0 THEN Zero
    ELSE Mul(a, Recip(b))

\* |a| > |b| for finite non-zero a, b (FALSE when the model cannot form the
\* cross products)
MagGt(a, b) ==
    LET g == a.e - b.e
    IN  IF g >= 10 THEN TRUE
        ELSE IF g <= -10 THEN FALSE
        ELSE IF ~Fits(a.n, b.d) \/ ~Fits(b.n, a.d) THEN FALSE
        ELSE LET L == IAbs(a.n) * b.d
                 R == IAbs(b.n) * a.d
             IN  IF g >= 0 THEN L > R \div Pow10(g)
                 ELSE \/ L \div Pow10(-g) > R
                      \/ (L \div Pow10(-g) = R /\ L % Pow10(-g) > 0)

\* a > b; FALSE when either is nan (or not followed by the model)
Gt(a, b) ==
    IF a.k \in {"nan", "unrep"} \/ b.k \in {"nan", "unrep"} THEN FALSE
    ELSE IF a = b THEN FALSE
    ELSE IF IsInf(a) \/ IsInf(b) THEN (a.k = "inf" \/ b.k = "-inf")
    ELSE IF Sgn(a) # Sgn(b) THEN Sgn(a) > Sgn(b)
    ELSE IF Sgn(a) > 0 THEN MagGt(a, b) ELSE MagGt(b, a)

Ge(a, b) == Gt(a, b) \/ (a = b /\ a.k \in {"fin", "inf", "-inf"})

\* a ** m for an integer m >= 0 (0 ** 0 = 1)
RECURSIVE Pow(_, _)
Pow(a, m) == IF m = 0 THEN One ELSE Mul(a, Pow(a, m - 1))

\* Python's max(a, b): the first argument unless the second is greater
PyMax(a, b) == IF Gt(b, a) THEN b ELSE a

\* math.ceil / int() of a finite double, as an integer; +-BeyondRange when
\* the model cannot hold the integer part
BeyondRange == 1000000000
Floor(a) ==
    IF a.e >= 0
    THEN IF a.e > 9 \/ ~Fits(a.n, Pow10(a.e)) THEN Sgn(a) * BeyondRange
         ELSE (a.n * Pow10(a.e)) \div a.d
    ELSE IF a.e < -9 \/ ~Fits(a.d, Pow10(-a.e)) THEN (IF a.n < 0 THEN -1 ELSE 0)
         ELSE a.n \div (a.d * Pow10(-a.e))
Ceil(a) == -Floor(Neg(a))
Trunc(a) == IF Sgn(a) < 0 THEN Ceil(a) ELSE Floor(a)

(***************************************************************************)
(* math.pi, np.sin, np.cos, np.exp                                         *)
(***************************************************************************)
Pi == Mk(22, 7, 0)

\* q turns as a whole number of quarter turns modulo 4; -1 when q is no
\* whole number of quarter turns
QuarterTurns(q) ==
    LET v == Mul(q, Whole(4))
    IN  IF v.k # "fin" \/ v.d # 1 \/ v.e < 0 THEN -1
        ELSE IF v.e >= 2 THEN 0
        ELSE ((v.n % 4) * Pow10(v.e)) % 4

\* np.sin(2*pi*q), np.cos(2*pi*q)
SinTurns(q) ==
    LET r == QuarterTurns(q)
    IN  IF r = -1 THEN Unrep ELSE IF r = 1 THEN One ELSE IF r = 3 THEN Neg(One) ELSE Zero
CosTurns(q) ==
    LET r == QuarterTurns(q)
    IN  IF r = -1 THEN Unrep ELSE IF r = 0 THEN One ELSE IF r = 2 THEN Neg(One) ELSE Zero

\* the value c * exp(a), kept symbolic; canonical: arg = 0 unless c is finite
\* and non-zero
ExpVal(c, a) == [coef |-> c, arg |-> IF c.k = "fin" /\ c.n # 0 THEN a ELSE Zero]
\* np.exp(a)
Exp(a) ==
    IF a.k = "fin" THEN ExpVal(One, a)
    ELSE IF a.k = "-inf" THEN ExpVal(Zero, Zero)
    ELSE ExpVal(a, Zero)
\* x * r and r * x for x = c * exp(a) and a double r
ExpMul(x, r) == ExpVal(Mul(x.coef, r), x.arg)

(***************************************************************************)
(* The shared closed forms                                                 *)
(***************************************************************************)
\* formation_envelope(S, sigma, S_opt)
formation_envelope(S, sigma, S_opt) ==
    Exp(Mul(Dec(-5, -1), Pow(Div(Sub(S, S_opt), sigma), 2)))

\* a gain that does not saturate: H = tau_R / tau0
GainValue_Unsaturated(tau_R, tau0, k_H) ==
    Add(One, Mul(k_H, Div(tau_R, tau0)))

\* the value 1.0 + k_H * H with H = tau_R / (tau_R + tau0)
GainValue(tau_R, tau0, k_H) ==
    Add(One, Mul(k_H, Div(tau_R, Add(tau_R, tau0))))

\* hysteresis_gain(tau_R, tau0, k_H) on Python floats: the division raises
\* ZeroDivisionError when tau_R + tau0 is zero
hysteresis_gain(tau_R, tau0, k_H) ==
    IF Add(tau_R, tau0) = Zero
    THEN [raised |-> TRUE, err |-> "ZeroDivisionError", val |-> NaN]
    ELSE [raised |-> FALSE, err |-> "", val |-> GainValue(tau_R, tau0, k_H)]

\* bouc_wen(xdot, z, A, beta, gamma, n): dz/dt
bouc_wen(xdot, z, A, beta, gamma, n) ==
    LET absz == NAbs(z)
    IN  Sub(Sub(Mul(A, xdot),
                Mul(Mul(Mul(beta, NAbs(xdot)), Pow(absz, n - 1)), z)),
            Mul(Mul(gamma, xdot), Pow(absz, n)))

(***************************************************************************)
(* numpy helpers used by simulate_cycle                                    *)
(***************************************************************************)
\* a grid that drops the last, partial step: floor(stop / step)
ArangeLen_Floor(stop, step) ==
    LET c == Floor(Div(stop, step)) IN IF c < 0 THEN 0 ELSE c

\* len(np.arange(0.0, stop, step)) for step # 0: ceil(stop / step), at least 0
ArangeLen(stop, step) ==
    LET c == Ceil(Div(stop, step)) IN IF c < 0 THEN 0 ELSE c

\* y[from:] for a 0-based index 0 <= from <= len(y)
SliceFrom(y, from) == SubSeq(y, from + 1, Len(y))

\* np.trapz(y, x): sum of (x[i+1] - x[i]) * (y[i+1] + y[i]) / 2.0
RECURSIVE TrapzFrom(_, _, _)
TrapzFrom(y, x, i) ==
    IF i >= Len(y) THEN Zero
    ELSE Add(Div(Mul(Sub(x[i + 1], x[i]), Add(y[i + 1], y[i])), Whole(2)),
             TrapzFrom(y, x, i + 1))
trapz(y, x) == TrapzFrom(y, x, 1)

\* np.gradient(y, x) for len(y) >= 2 on the evenly spaced grid of np.arange:
\* one-sided differences at the two ends, central differences inside
gradient(y, x) ==
    [i \in 1..Len(y) |->
        IF i = 1 THEN Div(Sub(y[2], y[1]), Sub(x[2], x[1]))
        ELSE IF i = Len(y) THEN Div(Sub(y[i], y[i - 1]), Sub(x[i], x[i - 1]))
        ELSE Div(Sub(y[i + 1], y[i - 1]), Sub(x[i + 1], x[i - 1]))]

(***************************************************************************)
(* simulate_cycle                                                          *)
(***************************************************************************)
\* the time grid np.arange(0.0, duration, dt) of len samples
TimeGrid(len, dt) == [i \in 1..len |-> Mul(Whole(i - 1), dt)]

\* the drive traces x = x_amp*sin(2*pi*f*t), xdot = 2*pi*f*x_amp*cos(2*pi*f*t)
DriveTraces(a, t) ==
    LET L0    == Mul(a.stroke_ratio, a.D)
        x_amp == Div(L0, Whole(2))
    IN  [x    |-> [i \in 1..Len(t) |-> Mul(x_amp, SinTurns(Mul(a.f, t[i])))],
         xdot |-> [i \in 1..Len(t) |->
                      Mul(Mul(Mul(Mul(Whole(2), Pi), a.f), x_amp),
                          CosTurns(Mul(a.f, t[i])))]]

\* a loop body that reads the velocity of the sample it writes
ZStep_CurrentVelocity(i, st, a) ==
    [st EXCEPT !.z[i + 1] =
        Add(st.z[i],
            Div(Mul(bouc_wen(st.xdot[i + 1], st.z[i], a.A_bw, a.beta, a.gamma, a.n), a.dt),
                PyMax(Dec(1, -9), a.tau_R)))]

\* one pass of the loop body, for the 0-based index i >= 1 (sequences are
\* 1-based, so sample i is z[i + 1]); st holds the arrays x, xdot, z
ZStep(i, st, a) ==
    [st EXCEPT !.z[i + 1] =
        Add(st.z[i],
            Div(Mul(bouc_wen(st.xdot[i], st.z[i], a.A_bw, a.beta, a.gamma, a.n), a.dt),
                PyMax(Dec(1, -9), a.tau_R)))]

\* the integration loop: for i in range(1, len(t))
RECURSIVE ZLoop(_, _, _)
ZLoop(i, st, a) ==
    IF i >= Len(st.z) THEN st ELSE ZLoop(i + 1, ZStep(i, st, a), a)

\* a thrust that is linear in the exit velocity
ThrustInst_Linear(rho, A0, u_exit, out) ==
    Mul(Mul(Mul(Mul(One, rho), A0), u_exit), out)

\* thrust_inst = 1.0 * rho * A0 * (u_exit**2) * out, for one sample
ThrustInst(rho, A0, u_exit, out) ==
    Mul(Mul(Mul(Mul(One, rho), A0), Pow(u_exit, 2)), out)

\* the locals of a call that has computed nothing yet
NoLocals ==
    [t |-> << >>, x |-> << >>, xdot |-> << >>, z |-> << >>, p |-> << >>,
     dV |-> << >>, thrust_inst |-> << >>, idx0 |-> 0,
     A_loop |-> NaN, impulse_raw |-> NaN, impulse |-> ExpVal(NaN, Zero)]

\* the outcome of a call: a returned record or a raised exception, with the
\* locals computed so far and the names of those that were assigned
Outcome(status, err, line, done, loc) ==
    [status |-> status, err |-> err, line |-> line, computed |-> done, loc |-> loc]

\* the locals assigned up to line 70, and up to line 83
TraceNames == {"t", "x", "xdot", "z", "p", "dV"}
MetricNames == TraceNames \cup {"A_loop", "thrust_inst", "impulse_raw"}

\* T = 1.0/f; duration = duration_cycles*T; t = np.arange(0.0, duration, dt)
Grid(a) == TimeGrid(ArangeLen(Mul(a.duration_cycles, Div(One, a.f)), a.dt), a.dt)

\* the arrays the loop starts from: the drive traces and z = np.zeros_like(t)
ZInit(drive) ==
    [x |-> drive.x, xdot |-> drive.xdot, z |-> [i \in 1..Len(drive.x) |-> Zero]]

\* k1 = 1.0 / max(1e-12, cavity_C)
Stiffness(a) == Div(One, PyMax(Dec(1, -12), a.cavity_C))

\* A0 = pi*(D/2.0)**2
OrificeArea(a) == Mul(Pi, Pow(Div(a.D, Whole(2)), 2))

\* the locals after line 70: the traces of the loop state st, p = k1*x + k2*z
\* with k2 = 0.2*k1, dV = A0*x and idx0 = int(0.8*len(t))
Traces(a, t, st) ==
    [NoLocals EXCEPT
        !.t = t, !.x = st.x, !.xdot = st.xdot, !.z = st.z,
        !.p = [i \in 1..Len(t) |->
                  Add(Mul(Stiffness(a), st.x[i]),
                      Mul(Mul(Dec(2, -1), Stiffness(a)), st.z[i]))],
        !.dV = [i \in 1..Len(t) |-> Mul(OrificeArea(a), st.x[i])],
        !.idx0 = Trunc(Mul(Dec(8, -1), Whole(Len(t))))]

\* np.trapz(p*np.gradient(dV, t), t) on the slices p, dV, t
LoopArea(p, dV, t) ==
    trapz([i \in 1..Len(t) |-> Mul(p[i], gradient(dV, t)[i])], t)

\* out = xdot > 0, as the factor 1.0 or 0.0 it is in the products
Gate(xd) ==
    IF xd.k = "unrep" THEN Unrep ELSE IF Gt(xd, Zero) THEN One ELSE Zero

\* u = (xdot/A0) * out; u_exit = Cc * u with Cc = 0.8; thrust_inst, one sample
ThrustSample(a, xd) ==
    ThrustInst(a.rho, OrificeArea(a),
               Mul(Dec(8, -1), Mul(Div(xd, OrificeArea(a)), Gate(xd))), Gate(xd))

\* the locals after line 82: A_loop and thrust_inst
Metrics(a, tr) ==
    [tr EXCEPT
        !.A_loop = LoopArea(SliceFrom(tr.p, tr.idx0), SliceFrom(tr.dV, tr.idx0),
                            SliceFrom(tr.t, tr.idx0)),
        !.thrust_inst = [i \in 1..Len(tr.t) |-> ThrustSample(a, tr.xdot[i])]]

\* impulse = np.trapz(thrust_inst, t)
WithImpulse(m) == [m EXCEPT !.impulse_raw = trapz(m.thrust_inst, m.t)]

\* lines 86-94: eff = formation_envelope(S), G = hysteresis_gain(tau_R) (which
\* may raise), impulse_eff = impulse * eff * G and the returned record
Return(a, m, G) ==
    IF G.raised
    THEN Outcome("raised", G.err, 87, MetricNames, m)
    ELSE Outcome("returned", "", 90, MetricNames \cup {"impulse"},
                 [m EXCEPT !.impulse =
                     ExpMul(ExpMul(formation_envelope(a.stroke_ratio, One, Whole(4)),
                                   m.impulse_raw),
                            G.val)])

\* lines 71-94 on the traces tr: np.gradient raises ValueError on a slice of
\* fewer than 2 samples
AfterTraces(a, tr) ==
    IF Len(tr.t) - tr.idx0 < 2
    THEN Outcome("raised", "ValueError", 71, TraceNames, tr)
    ELSE Return(a, WithImpulse(Metrics(a, tr)),
                hysteresis_gain(a.tau_R, Dec(5, -1), Dec(6, -1)))

\* lines 44-94 on the time grid t
Integrate(a, t) ==
    AfterTraces(a, Traces(a, t, ZLoop(1, ZInit(DriveTraces(a, t)), a)))

\* simulate_cycle(**a): 1.0/f raises on f = 0 and np.arange on dt = 0
simulate_cycle(a) ==
    IF a.f = Zero
    THEN Outcome("raised", "ZeroDivisionError", 39, {}, NoLocals)
    ELSE IF a.dt = Zero
    THEN Outcome("raised", "ZeroDivisionError", 41, {}, NoLocals)
    ELSE Integrate(a, Grid(a))

(***************************************************************************)
(* sweep_S_tauR                                                            *)
(***************************************************************************)
\* np.linspace(lo, hi, num) for num >= 2
linspace(lo, hi, num) ==
    [i \in 1..num |-> Add(lo, Div(Mul(Whole(i - 1), Sub(hi, lo)), Whole(num - 1)))]

\* an optional sequence argument: None, or the given values; ndarray tells
\* whether the values are numpy doubles (an ndarray) or Python floats (a list)
None == [given |-> FALSE, ndarray |-> FALSE, vals |-> << >>]
PyList(q) == [given |-> TRUE, ndarray |-> FALSE, vals |-> q]
NdArray(q) == [given |-> TRUE, ndarray |-> TRUE, vals |-> q]

\* a sweep whose tau0 has drifted from the shared gain function's 0.5
SweepH_Drift(tau_R) == Div(tau_R, Add(tau_R, One))

\* H = tau_R/(tau_R + 0.5)
SweepH(tau_R) == Div(tau_R, Add(tau_R, Dec(5, -1)))

\* eff = np.exp(-0.5*((S-4.0)/sigma)**2); impulse = eff*(1.0 + k_H*H)
SweepImpulse(S, sigma, k_H, H) ==
    ExpMul(Exp(Mul(Dec(-5, -1), Pow(Div(Sub(S, Whole(4)), sigma), 2))),
           Add(One, Mul(k_H, H)))

\* for S in S_vals: ... data.append((S, tau_R, impulse)): the rows one pass
\* of the inner loop appends, in the order of S_vals
SweepInner(S_vals, tau_R, H, sigma, k_H) ==
    [i \in 1..Len(S_vals) |->
        [S |-> S_vals[i], tau_R |-> tau_R,
         impulse |-> SweepImpulse(S_vals[i], sigma, k_H, H)]]

\* for tau_R in tau_vals: ..., from position j; a Python float tau_R with
\* tau_R + 0.5 = 0 raises ZeroDivisionError
RECURSIVE SweepOuter(_, _, _, _, _, _)
SweepOuter(j, S_vals, tau, sigma, k_H, data) ==
    IF j > Len(tau.vals) THEN [raised |-> FALSE, data |-> data]
    ELSE IF ~tau.ndarray /\ Add(tau.vals[j], Dec(5, -1)) = Zero
         THEN [raised |-> TRUE, data |-> data]
    ELSE SweepOuter(j + 1, S_vals, tau, sigma, k_H,
                    data \o SweepInner(S_vals, tau.vals[j], SweepH(tau.vals[j]),
                                       sigma, k_H))

sweep_S_tauR(a) ==
    LET S_vals   == IF a.S_vals.given THEN a.S_vals.vals
                    ELSE linspace(One, Whole(8), 40)
        tau_vals == IF a.tau_vals.given THEN a.tau_vals
                    ELSE NdArray(<<Dec(1, -1), Dec(5, -1), One, Whole(2), Whole(5)>>)
        run      == SweepOuter(1, S_vals, tau_vals, a.sigma, a.k_H, << >>)
    IN  IF run.raised
        THEN Outcome("raised", "ZeroDivisionError", 106, {"data"}, [data |-> run.data])
        ELSE Outcome("returned", "", 111, {"data"}, [data |-> run.data])

(***************************************************************************)
(* fit_sigma_kH                                                            *)
(***************************************************************************)
\* the box constraints bounds=([0.2, 0.0],[5.0, 2.0])
InBounds(x) ==
    /\ Ge(x[1], Dec(2, -1)) /\ Ge(Whole(5), x[1])
    /\ Ge(x[2], Zero) /\ Ge(Whole(2), x[2])

\* resid(init) is finite: no bench_tauR[i] + tau0 is zero (the bench data are
\* ndarrays, so the division yields an infinity or nan there)
ResidFinite(a) ==
    \A i \in 1..Len(a.bench_tauR) : Add(a.bench_tauR[i], a.tau0) # Zero

\* what scipy.optimize.least_squares may hand back: a point of the box, a
\* cost, and the termination status (0: the evaluation budget ran out before
\* a tolerance was met; 1, 2: a tolerance was met); success = status > 0
SolverResults ==
    {[x |-> <<sg, kH>>, cost |-> c, status |-> st, success |-> st > 0] :
        sg \in {Dec(2, -1), Dec(12, -1)},
        kH \in {Zero, Dec(5, -1)},
        c \in {Zero, Dec(5, -1)},
        st \in 0..2}

\* sigma_fit, kH_fit = res.x; return sigma_fit, kH_fit, res.cost
FitReturn(res) == <<res.x[1], res.x[2], res.cost>>

\* the outcomes of fit_sigma_kH(a): least_squares rejects an infeasible x0
\* and a non-finite initial residual with ValueError
fit_sigma_kH(a) ==
    IF ~InBounds(a.init) \/ ~ResidFinite(a)
    THEN {Outcome("raised", "ValueError", 124, {}, [value |-> << >>])}
    ELSE {Outcome("returned", "", 126, {"res"}, [res |-> r, value |-> FitReturn(r)]) :
             r \in SolverResults}

(***************************************************************************)
(* State                                                                   *)
(***************************************************************************)
VARIABLES
    RNG,    \* the module-level generator np.random.default_rng(417)
    op,     \* the function being called
    args,   \* its arguments
    pc,     \* "call": about to run; "done": it has returned or raised
    ret,    \* its outcome
    log     \* the calls completed so far: [op, args, ret], with args and ret
            \* kept for the simulate_cycle calls only

vars == <<RNG, op, args, pc, ret, log>>

\* a generator: its seed and the number of values drawn from it
default_rng(seed) == [seed |-> seed, draws |-> 0]

NoRet == Outcome("none", "", 0, {}, NoLocals)

(***************************************************************************)
(* simulate_cycle on drawn parameters                                      *)
(***************************************************************************)
MaxCycles == 3

\* <<f, dt>>: a quarter or half turn per sample, and the non-positive values
DriveGrid ==
    {<<Whole(1), Dec(25, -2)>>, <<Whole(25), Dec(1, -2)>>, <<Whole(1), Dec(5, -1)>>,
     <<Zero, Dec(25, -2)>>, <<Whole(-1), Dec(25, -2)>>,
     <<Whole(1), Zero>>, <<Whole(1), Dec(-25, -2)>>, <<Whole(-1), Dec(-25, -2)>>}

\* <<A_bw, beta, gamma, n>>
BoucWenShapes ==
    {<<One, Dec(6, -1), Dec(2, -1), 2>>, <<One, Dec(6, -1), Dec(2, -1), 1>>,
     <<One, Zero, Zero, 2>>}

SimArgs ==
    {[D |-> D, f |-> fd[1], stroke_ratio |-> S, tau_R |-> tau, cavity_C |-> C,
      rho |-> rho, mu_air |-> Dec(18, -6),
      A_bw |-> bw[1], beta |-> bw[2], gamma |-> bw[3], n |-> bw[4],
      duration_cycles |-> dc, dt |-> fd[2], seed |-> 417] :
        D \in {Dec(14, -2), Zero, Dec(-14, -2)},
        fd \in DriveGrid,
        S \in {Whole(5), Dec(25, -1)},
        tau \in {Whole(2), Dec(55, -2), Zero, Dec(-5, -1)},
        C \in {Dec(2, -8), Zero},
        rho \in {Dec(12, -1), Dec(-12, -1)},
        bw \in BoucWenShapes,
        dc \in {Whole(c) : c \in 0..MaxCycles} \cup {Dec(16, -1)}}

InitSim ==
    /\ RNG = default_rng(417)
    /\ op = "simulate_cycle"
    /\ args \in SimArgs
    /\ pc = "call"
    /\ ret = NoRet
    /\ log = << >>

SimulateCycle ==
    /\ op = "simulate_cycle"
    /\ pc = "call"
    /\ ret' = simulate_cycle(args)
    /\ pc' = "done"
    /\ UNCHANGED <<RNG, op, args, log>>

SpecSim == InitSim /\ [][SimulateCycle]_vars

(***************************************************************************)
(* sweep_S_tauR on drawn grids                                             *)
(***************************************************************************)
MaxLen == 2

\* the sequences over V of length at most MaxLen
SeqsUpTo(V) == UNION {[1..m -> V] : m \in 0..MaxLen}

SweepArgs ==
    {[D |-> Dec(1, -2), f |-> Whole(150), S_vals |-> Sv, tau_vals |-> Tv,
      sigma |-> sigma, k_H |-> k_H, seed |-> 417] :
        Sv \in {None} \cup {PyList(q) : q \in SeqsUpTo({One, Whole(4), Dec(25, -1)})},
        Tv \in {None} \cup {PyList(q) : q \in SeqsUpTo({Dec(1, -1), Whole(2), Dec(-5, -1)})}
                      \cup {NdArray(q) : q \in SeqsUpTo({Whole(2), Dec(-5, -1)})},
        sigma \in {One, Dec(5, -1), Zero},
        k_H \in {Dec(6, -1), Zero}}

InitSweep ==
    /\ RNG = default_rng(417)
    /\ op = "sweep_S_tauR"
    /\ args \in SweepArgs
    /\ pc = "call"
    /\ ret = NoRet
    /\ log = << >>

SweepSTauR ==
    /\ op = "sweep_S_tauR"
    /\ pc = "call"
    /\ ret' = sweep_S_tauR(args)
    /\ pc' = "done"
    /\ UNCHANGED <<RNG, op, args, log>>

SpecSweep == InitSweep /\ [][SweepSTauR]_vars

(***************************************************************************)
(* hysteresis_gain on drawn arguments                                      *)
(***************************************************************************)
GainArgs ==
    {[tau_R |-> tau_R, tau0 |-> tau0, k_H |-> k_H] :
        tau_R \in {Zero, Dec(1, -1), Dec(5, -1), One, Whole(2), Whole(5),
                   Whole(1000), Dec(-5, -1)},
        tau0 \in {Dec(5, -1), One, Dec(1, -1)},
        k_H \in {Zero, Dec(2, -1), Dec(6, -1), One, Whole(2)}}

InitGain ==
    /\ RNG = default_rng(417)
    /\ op = "hysteresis_gain"
    /\ args \in GainArgs
    /\ pc = "call"
    /\ ret = NoRet
    /\ log = << >>

HysteresisGain ==
    /\ op = "hysteresis_gain"
    /\ pc = "call"
    /\ ret' = hysteresis_gain(args.tau_R, args.tau0, args.k_H)
    /\ pc' = "done"
    /\ UNCHANGED <<RNG, op, args, log>>

SpecGain == InitGain /\ [][HysteresisGain]_vars

(***************************************************************************)
(* fit_sigma_kH on drawn bench data                                        *)
(***************************************************************************)
\* <<bench_S, bench_tauR, bench_impulse>>, three ndarrays of one length
BenchData ==
    {<< <<One, Whole(4)>>, <<Whole(2), Whole(2)>>, <<One, Whole(2)>> >>,
     << <<Whole(4)>>, <<Dec(-5, -1)>>, <<One>> >>,
     << <<Whole(3), Whole(4), Whole(5)>>, <<Dec(1, -1), One, Whole(5)>>,
        <<Dec(7, -1), Dec(14, -1), One>> >>}

FitArgs ==
    {[bench_S |-> b[1], bench_tauR |-> b[2], bench_impulse |-> b[3],
      tau0 |-> tau0, init |-> init] :
        b \in BenchData,
        tau0 \in {Dec(5, -1), One},
        init \in {<<One, Dec(6, -1)>>, <<Dec(1, -1), Dec(6, -1)>>, <<One, Whole(3)>>}}

InitFit ==
    /\ RNG = default_rng(417)
    /\ op = "fit_sigma_kH"
    /\ args \in FitArgs
    /\ pc = "call"
    /\ ret = NoRet
    /\ log = << >>

FitSigmaKH ==
    /\ op = "fit_sigma_kH"
    /\ pc = "call"
    /\ ret' \in fit_sigma_kH(args)
    /\ pc' = "done"
    /\ UNCHANGED <<RNG, op, args, log>>

SpecFit == InitFit /\ [][FitSigmaKH]_vars

(***************************************************************************)
(* Sequences of calls                                                      *)
(***************************************************************************)
MaxCalls == 3

BaseSimArgs ==
    [D |-> Dec(14, -2), f |-> Whole(1), stroke_ratio |-> Whole(5),
     tau_R |-> Dec(55, -2), cavity_C |-> Dec(2, -8), rho |-> Dec(12, -1),
     mu_air |-> Dec(18, -6), A_bw |-> One, beta |-> Dec(6, -1), gamma |-> Dec(2, -1),
     n |-> 2, duration_cycles |-> Dec(16, -1), dt |-> Dec(25, -2), seed |-> 417]

CallSimArgs ==
    {[BaseSimArgs EXCEPT !.seed = sd, !.tau_R = tau, !.duration_cycles = dc] :
        sd \in {417, 7}, tau \in {Dec(55, -2), Dec(-5, -1)},
        dc \in {Dec(16, -1)}}

CallSweepArgs ==
    {[D |-> Dec(1, -2), f |-> Whole(150), S_vals |-> PyList(<<One, Whole(4)>>),
      tau_vals |-> PyList(<<tau>>), sigma |-> One, k_H |-> Dec(6, -1), seed |-> sd] :
        tau \in {Whole(2), Dec(-5, -1)}, sd \in {417, 7}}

\* a simulation that injects noise drawn from its seeded generator
SimulateResult_Seeded(a, g) ==
    [simulate_cycle(a) EXCEPT !.loc.impulse_raw = Add(@, Whole(a.seed))]

\* the outcome of simulate_cycle(a) called while the module-level generator
\* is g: the function builds its own generator from a.seed and reads neither
SimulateResult(a, g) == simulate_cycle(a)

CallFitArgs ==
    {[bench_S |-> <<One, Whole(4)>>, bench_tauR |-> <<Whole(2), Whole(2)>>,
      bench_impulse |-> <<One, Whole(2)>>, tau0 |-> Dec(5, -1), init |-> init] :
        init \in {<<One, Dec(6, -1)>>, <<Dec(1, -1), Dec(6, -1)>>}}

InitCalls ==
    /\ RNG = default_rng(417)
    /\ op = "none"
    /\ args = << >>
    /\ pc = "done"
    /\ ret = NoRet
    /\ log = << >>

CallSimulate ==
    /\ Len(log) < MaxCalls
    /\ \E a \in CallSimArgs :
          /\ op' = "simulate_cycle"
          /\ args' = a
          /\ ret' = SimulateResult(a, RNG)
          /\ log' = Append(log, [op |-> "simulate_cycle", args |-> a,
                                 ret |-> SimulateResult(a, RNG)])
    /\ UNCHANGED <<RNG, pc>>

CallSweep ==
    /\ Len(log) < MaxCalls
    /\ \E a \in CallSweepArgs :
          /\ op' = "sweep_S_tauR"
          /\ args' = a
          /\ ret' = sweep_S_tauR(a)
    /\ log' = Append(log, [op |-> "sweep_S_tauR", args |-> << >>, ret |-> NoRet])
    /\ UNCHANGED <<RNG, pc>>

CallFit ==
    /\ Len(log) < MaxCalls
    /\ \E a \in CallFitArgs : \E r \in fit_sigma_kH(a) :
          /\ op' = "fit_sigma_kH"
          /\ args' = a
          /\ ret' = r
    /\ log' = Append(log, [op |-> "fit_sigma_kH", args |-> << >>, ret |-> NoRet])
    /\ UNCHANGED <<RNG, pc>>

NextCalls == CallSimulate \/ CallSweep \/ CallFit

SpecCalls == InitCalls /\ [][NextCalls]_vars

(***************************************************************************)
(* Properties of simulate_cycle                                            *)
(***************************************************************************)
SimDone == op = "simulate_cycle" /\ pc = "done"
Known(v) == v.k # "unrep"
\* two doubles agree wherever the model follows both
Agree(v, w) == Known(v) /\ Known(w) => v = w

\* density * area * exit_velocity^2 with exit_velocity = 0.8 * xdot / area
OutstrokeThrust(a, xd) ==
    Mul(Mul(a.rho, OrificeArea(a)), Pow(Mul(Dec(8, -1), Div(xd, OrificeArea(a))), 2))

\* C3 (as claimed): in every run that computes the thrust, every sample of the
\* instantaneous thrust is non-negative, and so is the raw impulse.
C3_ThrustNeverNegative ==
    SimDone /\ "thrust_inst" \in ret.computed =>
        /\ \A i \in 1..Len(ret.loc.thrust_inst) :
              Known(ret.loc.thrust_inst[i]) => Ge(ret.loc.thrust_inst[i], Zero)
        /\ Known(ret.loc.impulse_raw) => Ge(ret.loc.impulse_raw, Zero)

\* C3 (amended): with D # 0 the thrust is zero at every sample whose drive
\* velocity is not strictly positive and density * area * exit_velocity^2 at
\* every other sample; it is non-negative when moreover rho >= 0, and then the
\* raw impulse is non-negative when dt > 0.  With D = 0 every sample is nan.
C3_GatedQuadraticThrust ==
    SimDone /\ "thrust_inst" \in ret.computed =>
        /\ Len(ret.loc.thrust_inst) = Len(ret.loc.xdot)
        /\ \A i \in 1..Len(ret.loc.thrust_inst) :
              LET th == ret.loc.thrust_inst[i]
                  xd == ret.loc.xdot[i]
              IN  IF args.D = Zero THEN th = NaN
                  ELSE /\ Known(xd) /\ ~Gt(xd, Zero) => th = Zero
                       /\ Known(xd) /\ Gt(xd, Zero) => th = OutstrokeThrust(args, xd)
                       /\ Known(th) /\ Ge(args.rho, Zero) => Ge(th, Zero)
        /\ args.D # Zero /\ Ge(args.rho, Zero) /\ Gt(args.dt, Zero)
           /\ Known(ret.loc.impulse_raw) => Ge(ret.loc.impulse_raw, Zero)

\* C3 witness: a returned run with D # 0 and rho > 0 whose thrust has both
\* gated (zero) and strictly positive outstroke samples and a positive impulse
C3_Witness ==
    /\ SimDone /\ ret.status = "returned"
    /\ args.D # Zero /\ Gt(args.rho, Zero)
    /\ \E i, j \in 1..Len(ret.loc.thrust_inst) :
          /\ Gt(ret.loc.xdot[i], Zero) /\ Gt(ret.loc.thrust_inst[i], Zero)
          /\ Gt(Zero, ret.loc.xdot[j]) /\ ret.loc.thrust_inst[j] = Zero
    /\ Gt(ret.loc.impulse_raw, Zero)

\* C4 (as claimed): a call with a non-positive D, f or dt raises before any
\* local is computed and returns no record.
C4_InvalidParameterRejected ==
    SimDone /\ (~Gt(args.D, Zero) \/ ~Gt(args.f, Zero) \/ ~Gt(args.dt, Zero)) =>
        ret.status = "raised" /\ ret.computed = {}

\* C5 (as claimed): with D, f, dt valid and tau_R <= 0 or cavity_C <= 0, the
\* call never ends in a division by zero.
C5_NoDivisionByZero ==
    SimDone /\ Gt(args.D, Zero) /\ Gt(args.f, Zero) /\ Gt(args.dt, Zero)
    /\ (~Gt(args.tau_R, Zero) \/ ~Gt(args.cavity_C, Zero)) =>
        ret.err # "ZeroDivisionError"

\* the right-hand side of the recurrence, from the previous sample
RecurrenceStep(a, zp, xp) ==
    Add(zp, Mul(Div(a.dt, PyMax(Dec(1, -9), a.tau_R)),
                Sub(Sub(Mul(a.A_bw, xp),
                        Mul(Mul(Mul(a.beta, NAbs(xp)), Pow(NAbs(zp), a.n - 1)), zp)),
                    Mul(Mul(a.gamma, xp), Pow(NAbs(zp), a.n)))))

\* C9: after the loop z[0] = 0 and every later sample follows the recurrence
\* from the previous sample's state and velocity; x and xdot are the drive
\* traces the loop started from.
C9_Recurrence ==
    SimDone /\ "z" \in ret.computed =>
        /\ Len(ret.loc.z) = Len(ret.loc.t)
        /\ Len(ret.loc.z) >= 1 => ret.loc.z[1] = Zero
        /\ \A i \in 2..Len(ret.loc.z) :
              Agree(ret.loc.z[i],
                    RecurrenceStep(args, ret.loc.z[i - 1], ret.loc.xdot[i - 1]))
        /\ ret.loc.x = DriveTraces(args, ret.loc.t).x
        /\ ret.loc.xdot = DriveTraces(args, ret.loc.t).xdot

\* C9 witness: a returned run with beta, gamma # 0 whose first six z samples
\* are all followed by the model and change three times
C9_Witness ==
    /\ SimDone /\ ret.status = "returned"
    /\ args.beta # Zero /\ args.gamma # Zero
    /\ Len(ret.loc.z) >= 6
    /\ \A i \in 1..6 : ret.loc.z[i].k = "fin"
    /\ ret.loc.z[2] # Zero /\ ret.loc.z[4] # ret.loc.z[2] /\ ret.loc.z[6] # ret.loc.z[4]
    /\ ret.loc.z[6] # ret.loc.z[2]

\* the claimed trace length: duration / dt with duration = duration_cycles / f,
\* rounded up when not whole
ClaimedLength(a) ==
    LET q == Div(Div(a.duration_cycles, a.f), a.dt)
    IN  IF Mul(Whole(Floor(q)), One) = q THEN Floor(q) ELSE Floor(q) + 1

SweepDone == op = "sweep_S_tauR" /\ pc = "done"

\* C1 (as claimed): for given S_vals (length m) and tau_vals (length k) the
\* sweep returns k*m rows, row j*m + i (0-based) carrying S_vals[i] and
\* tau_vals[j].
C1_SweepRowOrder ==
    SweepDone /\ args.S_vals.given /\ args.tau_vals.given =>
        LET m == Len(args.S_vals.vals)
            k == Len(args.tau_vals.vals)
        IN  /\ ret.status = "returned"
            /\ Len(ret.loc.data) = k * m
            /\ \A j \in 0..(k - 1) : \A i \in 0..(m - 1) :
                  /\ ret.loc.data[j * m + i + 1].S = args.S_vals.vals[i + 1]
                  /\ ret.loc.data[j * m + i + 1].tau_R = args.tau_vals.vals[j + 1]

\* the gain of a row's tau_R through hysteresis_gain (default tau0)
RowGain(a, tau_R) ==
    IF a.tau_vals.given /\ ~a.tau_vals.ndarray
    THEN hysteresis_gain(tau_R, Dec(5, -1), a.k_H).val
    ELSE GainValue(tau_R, Dec(5, -1), a.k_H)

\* C2: the impulse of every sweep row equals formation_envelope(S, sigma)
\* times hysteresis_gain(tau_R, k_H = k_H).
C2_SweepMatchesClosedForm ==
    SweepDone =>
        \A r \in 1..Len(ret.loc.data) :
            LET row == ret.loc.data[r]
            IN  row.impulse = ExpMul(formation_envelope(row.S, args.sigma, Whole(4)),
                                     RowGain(args, row.tau_R))

\* C2 witness: a returned sweep of at least four rows with sigma # 1 that has
\* a row off the peak with a gain above 1
C2_Witness ==
    /\ SweepDone /\ ret.status = "returned"
    /\ args.sigma = Dec(5, -1) /\ args.k_H # Zero
    /\ Len(ret.loc.data) >= 4
    /\ \E r \in 1..Len(ret.loc.data) :
          /\ ret.loc.data[r].impulse.arg # Zero
          /\ Gt(ret.loc.data[r].impulse.coef, One)

(***************************************************************************)
(* Properties of hysteresis_gain                                           *)
(***************************************************************************)
GainDone == op = "hysteresis_gain" /\ pc = "done"
GainDomain == Ge(args.tau_R, Zero) /\ Gt(args.tau0, Zero) /\ Ge(args.k_H, Zero)

\* C8 (as claimed): for tau_R >= 0, tau0 > 0 and k_H >= 0 (k_H = 0 included)
\* the gain lies in [1, 1 + k_H): it is 1 at tau_R = 0 and strictly below
\* 1 + k_H.
C8_GainHalfOpen ==
    GainDone /\ GainDomain =>
        /\ ~ret.raised
        /\ Ge(ret.val, One)
        /\ Gt(Add(One, args.k_H), ret.val)
        /\ args.tau_R = Zero => ret.val = One

\* C8 (amended): the gain lies in [1, 1 + k_H] and is 1 at tau_R = 0; it is
\* strictly below 1 + k_H when k_H > 0, and it is 1 = 1 + k_H when k_H = 0.
C8_GainClosed ==
    GainDone /\ GainDomain =>
        /\ ~ret.raised
        /\ Ge(ret.val, One)
        /\ Ge(Add(One, args.k_H), ret.val)
        /\ args.tau_R = Zero => ret.val = One
        /\ Gt(args.k_H, Zero) => Gt(Add(One, args.k_H), ret.val)
        /\ args.k_H = Zero => ret.val = One

\* C8 witness: a gain strictly between 1 and 1 + k_H
C8_Witness ==
    /\ GainDone /\ GainDomain
    /\ Gt(args.tau_R, Zero) /\ Gt(args.k_H, Zero)
    /\ Gt(ret.val, One) /\ Gt(Add(One, args.k_H), ret.val)

(***************************************************************************)
(* Properties of fit_sigma_kH                                              *)
(***************************************************************************)
FitDone == op = "fit_sigma_kH" /\ pc = "done"

\* C6 (as claimed): the returned value tells a converged fit from one that
\* did not converge: no solver result of the other convergence status yields
\* the same returned value.
C6_ConvergenceVisible ==
    FitDone /\ ret.status = "returned" =>
        \A r \in SolverResults :
            FitReturn(r) = ret.loc.value => r.success = ret.loc.res.success

(***************************************************************************)
(* Properties of sequences of calls                                        *)
(***************************************************************************)
SameButSeed(a, b) == [a EXCEPT !.seed = 0] = [b EXCEPT !.seed = 0]
SimCalls == {i \in 1..Len(log) : log[i].op = "simulate_cycle"}

====
